---- MODULE Spec2Model ----
(***************************************************************************)
(* Model of the fastlz/zlib compression-estimation pipeline                *)
(* (src/unnamed/part_000): coordinator, fetchers, the single estimator     *)
(* worker, the writer, and the zlibBatchEstimator they drive.              *)
(***************************************************************************)
EXTENDS Integers, Sequences, FiniteSets, TLC

\* ------------------------------------------------------------------------
\* Bounds of the model
\* ------------------------------------------------------------------------
NumFetchers == 2
MaxBlocks == 2
MaxBootstrap == 2
MaxWrites == 6
MaxWriteFailures == 1
MaxFlzLen == 24
MaxFlzCalls == 3

\* ------------------------------------------------------------------------
\* Program constants
\* ------------------------------------------------------------------------
maxRetries == 8
JobChanCap == 20
ResultChanCap == 1000
BlockNumChanCap == NumFetchers * 10
BaseRetryDelay == 100
MirrorLimit == 64 * 1024
RotateLimit == 128 * 1024
SyncBytes == 2
ZlibHeaderLen == 2
endBlock == 78980000
trimSignature == FALSE
SignatureLen == 68

Nil == 0
ErrNil == "nil"
ErrFail == "error"

Max(a, b) == IF a > b THEN a ELSE b

VARIABLES
    cfg,            \* run configuration and block source, fixed after Init
    err,            \* main's err variable, shared by coordinator and fetchers
    fatal,          \* log.Fatal was called or a goroutine panicked
    coord,          \* coordinator goroutine
    blockNumChan, blockNumClosed,
    fetcher,        \* fetcher goroutines
    jobChan, jobClosed,
    worker,         \* estimator worker goroutine
    est,            \* zlibBestBatchEstimator
    bootstrapCount, bootstrapDone,
    resultChan, resultClosed,
    writer,         \* writer goroutine: resultCount, lastBlock
    output,         \* bytes of ./data/fastlz.bin
    mainPc,
    hist,           \* history of the run (logs and what happened to each block)
    zcall,          \* the latest call of zlibBatchEstimator.write
    flz,            \* calls of FlzCompressLen: argument, result, table left
    history,        \* the block-history exporter (api-caller/block-history)
    tip             \* the priority-fee monitor (api-caller/tip)

vars == <<cfg, err, fatal, coord, blockNumChan, blockNumClosed, fetcher,
          jobChan, jobClosed, worker, est, bootstrapCount, bootstrapDone,
          resultChan, resultClosed, writer, output, mainPc, hist, zcall, flz, history, tip>>

\* ------------------------------------------------------------------------
\* zlibBatchEstimator
\* ------------------------------------------------------------------------
Slots == {0, 1}

\* A compression session: the buffer slot its output goes to, whether the
\* zlib header was emitted since construction/Reset, and the number of
\* payloads in its history since construction/Reset.
NewSession(i) == [id |-> i, dst |-> i, wroteHeader |-> FALSE, writes |-> 0]

newZlibBatchEstimator ==
    [b |-> [i \in Slots |-> 0],
     w |-> [i \in Slots |-> NewSession(i)]]

\* w.w[i].Write(p); w.w[i].Flush(): the session emits the zlib header on
\* its first use, then k bytes (deflate blocks and sync marker) for p.
SessionWrite(e, i, k) ==
    LET s == e.w[i]
        n == (IF s.wroteHeader THEN 0 ELSE ZlibHeaderLen) + k
    IN [b |-> [e.b EXCEPT ![s.dst] = @ + n],
        w |-> [e.w EXCEPT ![i] = [s EXCEPT !.wroteHeader = TRUE,
                                           !.writes = @ + 1]]]

NeedsMirror(e) == e.b[1] > MirrorLimit

NeedsRotateLate(e) == e.b[1] > 4 * RotateLimit

NeedsRotate(e) == e.b[1] > RotateLimit

\* b[1].Reset(); w[1].Reset(&b[1]); swap b[0]<->b[1] by value and
\* w[0]<->w[1] by pointer.
Rotate(e) ==
    LET tb == 0
        tw == [e.w[1] EXCEPT !.dst = 1, !.wroteHeader = FALSE, !.writes = 0]
    IN [b |-> [i \in Slots |-> IF i = 1 THEN e.b[0] ELSE tb],
        w |-> [i \in Slots |-> IF i = 1 THEN e.w[0] ELSE tw]]

\* uint32(x) for a signed x: the two 16-bit halves of its two's complement.
Uint32(x) == [hi |-> (x \div 65536) % 65536, lo |-> x % 65536]

ZlibDeltaUnchecked(before, after) == Uint32(after - before - SyncBytes)

ZlibDelta(before, after) ==
    IF after - before - SyncBytes < 0
    THEN Uint32(0)
    ELSE Uint32(after - before - SyncBytes)

\* (w *zlibBatchEstimator) write(p), p abstracted by the number of bytes k
\* a session emits for it.
ZlibWrite(e, k) ==
    LET before == e.b[1]
        e1 == SessionWrite(e, 1, k)
        after == e1.b[1]
        mirrored == NeedsMirror(e1)
        e2 == IF mirrored THEN SessionWrite(e1, 0, k) ELSE e1
        rotated == NeedsRotate(e2)
        e3 == IF rotated THEN Rotate(e2) ELSE e2
    IN [est |-> e3, ret |-> ZlibDelta(before, after),
        before |-> before, after |-> after, k |-> k,
        emitted |-> e1.b[e.w[1].dst] - e.b[e.w[1].dst],
        peak |-> e2.b[1],
        mirrored |-> mirrored, rotated |-> rotated]

NoCall == [n |-> 0, ret |-> Uint32(0), before |-> 0, after |-> 0, k |-> 0,
           emitted |-> 0, peak |-> 0, mirrored |-> FALSE, rotated |-> FALSE]

CallRecord(r, n) ==
    [n |-> n, ret |-> r.ret, before |-> r.before, after |-> r.after,
     k |-> r.k, emitted |-> r.emitted, peak |-> r.peak,
     mirrored |-> r.mirrored, rotated |-> r.rotated]

\* ------------------------------------------------------------------------
\* Block source and transactions
\* ------------------------------------------------------------------------
TxA == [kind |-> "normal", ok |-> TRUE, bytes |-> <<0, 7>>]
TxB == [kind |-> "normal", ok |-> TRUE, bytes |-> <<5, 0, 0>>]
TxDep == [kind |-> "deposit", ok |-> TRUE, bytes |-> <<1>>]
TxBad == [kind |-> "normal", ok |-> FALSE, bytes |-> <<>>]

MixedChain(n) == IF n % 2 = 0 THEN <<TxDep, TxA>> ELSE <<TxA, TxBad, TxB>>
PlainChain(n) == <<TxA, TxB>>
SingleChain(n) == <<TxA>>
TripleChain(n) == <<TxA, TxB, TxA>>
BulkChain(n) == [i \in 1..(ResultChanCap + 2) |-> TxA]

\* Bytes a compression session emits for payload p on Write+Flush.
FlushLen(p) == Len(p) + 5

TrimSig(b) ==
    IF trimSignature /\ Len(b) >= SignatureLen
    THEN SubSeq(b, 1, Len(b) - SignatureLen)
    ELSE b

RECURSIVE CountZeroes(_)
CountZeroes(b) ==
    IF b = <<>> THEN 0
    ELSE (IF Head(b) = 0 THEN 1 ELSE 0) + CountZeroes(Tail(b))

RECURSIVE CountNonZeroes(_)
CountNonZeroes(b) ==
    IF b = <<>> THEN 0
    ELSE (IF Head(b) = 0 THEN 0 ELSE 1) + CountNonZeroes(Tail(b))

\* ------------------------------------------------------------------------
\* FlzCompressLen
\* ------------------------------------------------------------------------
HashSlots == 8192
MaxDistance == 8191
MatchUnit == 262

\* ib[i] with Go's 0-based index; a read at i >= len(ib) panics in Go and is
\* recorded through the highest index read.
ByteAt(ib, i) == IF i < Len(ib) THEN ib[i + 1] ELSE 0

u24(ib, i) == ByteAt(ib, i) + 256 * ByteAt(ib, i + 1) + 65536 * ByteAt(ib, i + 2)

\* ((2654435769 * v) >> 19) & 0x1fff in uint32 arithmetic, computed on
\* 16-bit limbs: 2654435769 = 40503 * 2^16 + 31161.
hash(v) ==
    LET b0 == v % 256
        b1 == (v \div 256) % 256
        vh == (v \div 65536) % 256
        vl == b0 + 256 * b1
        low == 31161 * vl
        mid == (40503 * b0 + 256 * ((40503 * b1) % 256)) % 65536
        top == ((low \div 65536) + mid + 31161 * vh) % 65536
    IN (top \div 8) % HashSlots

HtGet(ht, h) == IF h \in DOMAIN ht THEN ht[h] ELSE 0
HtPut(ht, h, ip) == [x \in (DOMAIN ht) \cup {h} |-> IF x = h THEN ip ELSE ht[x]]

\* literals(r): cost added for a run of r literal bytes
literalsNoPrefix(r) == r

literals(r) ==
    33 * (r \div 32) + (IF r % 32 # 0 THEN (r % 32) + 1 ELSE 0)

\* match(l): cost added for a match of length l
matchShort(l) == 3 * ((l - 1) \div MatchUnit) + 2

match(l) ==
    3 * ((l - 1) \div MatchUnit) + (IF (l - 1) % MatchUnit >= 6 THEN 3 ELSE 2)

\* the value of a singleton set: binds a value that is computed once
Only(S) == CHOOSE x \in S : TRUE

\* cmp(p, q, e): "for e -= q; l < e; l++ { if ib[p+l] != ib[q+l] { e = 0 } }"
\* stops one past the first mismatch, or at e - q when there is none.
cmp(ib, p, q, e) ==
    Only({IF mism = {}
          THEN Max(e - q, 0)
          ELSE (CHOOSE l \in mism : \A x \in mism : l <= x) + 1 :
            mism \in {{l \in 0..(e - q - 1) :
                         ByteAt(ib, p + l) # ByteAt(ib, q + l)}}})

\* highest index read by cmp(p, q, e) that returned l
cmpMaxRead(p, q, l) == IF l = 0 THEN -1 ELSE Max(p, q) + l - 1

setNextHash(ib, ht, ip) == HtPut(ht, hash(u24(ib, ip)), ip)

\* ht := make([]uint32, 8192): a zeroed table, whatever table an earlier
\* call left behind.
MakeTableStale(left) == left

MakeTable(left) == <<>>

\* ipLimit := uint32(len(ib)) - 13; if len(ib) < 13 { ipLimit = 0 }
ScanLimit(len) == IF len < 13 THEN 0 ELSE len - 13

\* the bound ipLimit+9 handed to cmp
CmpLimitToEnd(ipLimit) == ipLimit + 13

CmpLimit(ipLimit) == ipLimit + 9

\* d := ip - r; d <= 0x1fff in uint32 arithmetic: for r > ip the
\* difference wraps around to more than 0x1fff.
Near(ip, r) == r <= ip /\ ip - r <= MaxDistance

\* The inner "for { ... }" of FlzCompressLen, from position ip.
RECURSIVE FlzScan(_, _, _, _, _, _)
FlzScan(ib, ipLimit, ip0, ht0, mr0, probes0) ==
    Only({LET s == u24(ib, ip)
              h == hash(s)
              r == HtGet(ht, h)
              ht2 == HtPut(ht, h, ip)
              mr2 == Max(mr, ip + 2)
          IN IF ip >= ipLimit
             THEN [ip |-> ip, r |-> r, ht |-> ht2, mr |-> mr2,
                   probes |-> probes + 1, lastProbe |-> ip]
             ELSE IF Near(ip, r)
                  THEN IF s = u24(ib, r)
                       THEN [ip |-> ip + 1, r |-> r, ht |-> ht2,
                             mr |-> Max(mr2, r + 2), probes |-> probes + 1,
                             lastProbe |-> ip]
                       ELSE FlzScan(ib, ipLimit, ip + 1, ht2, Max(mr2, r + 2),
                                    probes + 1)
                  ELSE FlzScan(ib, ipLimit, ip + 1, ht2, mr2, probes + 1) :
            ip \in {ip0}, ht \in {ht0}, mr \in {mr0}, probes \in {probes0}})

Literals(r) == [op |-> "literals", arg |-> r]
Match(l) == [op |-> "match", arg |-> l]

\* The outer "for ip := a + 2; ip < ipLimit; { ... }" of FlzCompressLen.
RECURSIVE FlzLoop(_, _, _)
FlzMatchAtNoSkip(ib, ipLimit, st, sc, l) ==
    LET ip == sc.ip - 1
        n1 == IF ip > st.a THEN st.n + literals(ip - st.a) ELSE st.n
        ops1 == IF ip > st.a
                THEN Append(st.ops, Literals(ip - st.a))
                ELSE st.ops
        n2 == n1 + match(l)
        ht1 == setNextHash(ib, sc.ht, ip + l)
        ht2 == setNextHash(ib, ht1, ip + l + 1)
        mr2 == Max(Max(sc.mr, cmpMaxRead(sc.r + 3, ip + 3, l)), ip + l + 3)
    IN FlzLoop(ib, ipLimit,
               [ip |-> ip + l, a |-> ip + l, n |-> n2,
                ht |-> ht2, mr |-> mr2,
                matches |-> st.matches + 1,
                probes |-> sc.probes,
                lastProbe |-> Max(st.lastProbe, sc.lastProbe),
                ops |-> Append(ops1, Match(l))])

FlzMatchAt(ib, ipLimit, st, sc, l) ==
    LET ip == sc.ip - 1
        n1 == IF ip > st.a THEN st.n + literals(ip - st.a) ELSE st.n
        ops1 == IF ip > st.a
                THEN Append(st.ops, Literals(ip - st.a))
                ELSE st.ops
        n2 == n1 + match(l)
        ht1 == setNextHash(ib, sc.ht, ip + l)
        ht2 == setNextHash(ib, ht1, ip + l + 1)
        mr2 == Max(Max(sc.mr, cmpMaxRead(sc.r + 3, ip + 3, l)), ip + l + 3)
    IN FlzLoop(ib, ipLimit,
               [ip |-> ip + l + 2, a |-> ip + l + 2, n |-> n2,
                ht |-> ht2, mr |-> mr2,
                matches |-> st.matches + 1,
                probes |-> sc.probes,
                lastProbe |-> Max(st.lastProbe, sc.lastProbe),
                ops |-> Append(ops1, Match(l))])

FlzAfterScan(ib, ipLimit, st, sc) ==
    IF sc.ip >= ipLimit
    THEN [st EXCEPT !.ip = sc.ip, !.ht = sc.ht, !.mr = sc.mr,
                    !.probes = sc.probes,
                    !.lastProbe = Max(@, sc.lastProbe)]
    ELSE Only({FlzMatchAt(ib, ipLimit, st, sc, l) :
                 l \in {cmp(ib, sc.r + 3, sc.ip + 2, CmpLimit(ipLimit))}})

FlzIterate(ib, ipLimit, st) ==
    IF ~(st.ip < ipLimit)
    THEN st
    ELSE Only({FlzAfterScan(ib, ipLimit, st, sc) :
                 sc \in {FlzScan(ib, ipLimit, st.ip, st.ht, st.mr, st.probes)}})

FlzLoop(ib, ipLimit, st0) ==
    Only({FlzIterate(ib, ipLimit, st) : st \in {st0}})

\* One call of FlzCompressLen(ib) whose table starts as ht0: the value
\* returned (n), the highest index of ib read (mr, -1 for none), the calls
\* of literals and match in order (ops), the number of table probes and
\* the highest position probed, and the table when the call returns.
FlzResult(ib, ht0, ipLimit, st) ==
    [n |-> st.n + literals(Len(ib) - st.a), mr |-> st.mr,
     matches |-> st.matches, ipLimit |-> ipLimit, ip |-> st.ip,
     probes |-> st.probes, lastProbe |-> st.lastProbe,
     ops |-> Append(st.ops, Literals(Len(ib) - st.a)),
     ht0 |-> ht0, ht |-> st.ht]

FlzExec(ib, ht0) ==
    Only({FlzResult(ib, ht0, ScanLimit(Len(ib)), st) :
            st \in {FlzLoop(ib, ScanLimit(Len(ib)),
                            [ip |-> 2, a |-> 0, n |-> 0, ht |-> ht0,
                             mr |-> -1, matches |-> 0, probes |-> 0,
                             lastProbe |-> -1, ops |-> <<>>])}})

FlzRun(ib) == FlzExec(ib, MakeTable(<<>>))

FlzCompressLen(ib) == FlzRun(ib).n

\* ------------------------------------------------------------------------
\* The pipeline of main()
\* ------------------------------------------------------------------------
Fetchers == 1..NumFetchers

Running == ~fatal /\ mainPc # "done"

ErrOf(ok) == IF ok THEN ErrNil ELSE ErrFail

DialOutcomes == IF cfg.dialFaults THEN BOOLEAN ELSE {TRUE}
FetchOutcomes(n) == IF n \in cfg.flaky THEN BOOLEAN ELSE {TRUE}

BlockRange == (cfg.endBlock + 1)..cfg.start

\* a send on a buffered channel goes through when the buffer has room and
\* blocks the sender otherwise
CanSendAlways(ch, cap) == TRUE

CanSend(ch, cap) == Len(ch) < cap

\* --- coordinator goroutine ---------------------------------------------
CoordDial ==
    /\ Running /\ coord.pc = "dial"
    /\ \E ok \in DialOutcomes :
          /\ err' = ErrOf(ok)
          /\ coord' = [coord EXCEPT !.pc = "dialchk", !.client = ok]
    /\ UNCHANGED <<tip, history, flz, cfg, fatal, blockNumChan, blockNumClosed, fetcher, jobChan,
                   jobClosed, worker, est, bootstrapCount, bootstrapDone,
                   resultChan, resultClosed, writer, output, mainPc, hist,
                   zcall>>

CoordDialCheck ==
    /\ Running /\ coord.pc = "dialchk"
    /\ IF err # ErrNil
       THEN fatal' = TRUE /\ coord' = [coord EXCEPT !.pc = "fatal"]
       ELSE fatal' = fatal /\ coord' = [coord EXCEPT !.pc = "resolve"]
    /\ UNCHANGED <<tip, history, flz, cfg, err, blockNumChan, blockNumClosed, fetcher, jobChan,
                   jobClosed, worker, est, bootstrapCount, bootstrapDone,
                   resultChan, resultClosed, writer, output, mainPc, hist,
                   zcall>>

\* tempClient.BlockByNumber(...); tempClient.Close()
CoordResolve ==
    /\ Running /\ coord.pc = "resolve"
    /\ IF ~coord.client
       THEN /\ fatal' = TRUE
            /\ coord' = [coord EXCEPT !.pc = "panic"]
            /\ err' = err
       ELSE /\ fatal' = fatal
            /\ \E ok \in DialOutcomes :
                  /\ err' = ErrOf(ok)
                  /\ coord' = [coord EXCEPT
                                  !.pc = "reschk",
                                  !.startingBlock = IF ok THEN cfg.start ELSE Nil]
    /\ UNCHANGED <<tip, history, flz, cfg, blockNumChan, blockNumClosed, fetcher, jobChan,
                   jobClosed, worker, est, bootstrapCount, bootstrapDone,
                   resultChan, resultClosed, writer, output, mainPc, hist,
                   zcall>>

CoordResolveCheck ==
    /\ Running /\ coord.pc = "reschk"
    /\ IF err # ErrNil
       THEN fatal' = TRUE /\ coord' = [coord EXCEPT !.pc = "fatal"]
       ELSE IF coord.startingBlock = Nil
            THEN fatal' = TRUE /\ coord' = [coord EXCEPT !.pc = "panic"]
            ELSE /\ fatal' = fatal
                 /\ coord' = [coord EXCEPT !.pc = "send",
                                            !.blockNum = coord.startingBlock]
    /\ UNCHANGED <<tip, history, flz, cfg, err, blockNumChan, blockNumClosed, fetcher, jobChan,
                   jobClosed, worker, est, bootstrapCount, bootstrapDone,
                   resultChan, resultClosed, writer, output, mainPc, hist,
                   zcall>>

\* loop condition of "for blockNum := startBlockNum; blockNum > endBlock; ..."
CoordLoopCondInclusive(blockNum, stop) == blockNum >= stop

CoordLoopCond(blockNum, stop) == blockNum > stop

\* for blockNum := startBlockNum; blockNum > endBlock; blockNum-- { send }
\* close(blockNumChan)
CoordSend ==
    /\ Running /\ coord.pc = "send"
    /\ IF CoordLoopCond(coord.blockNum, cfg.endBlock)
       THEN /\ CanSend(blockNumChan, BlockNumChanCap)
            /\ blockNumChan' = Append(blockNumChan, coord.blockNum)
            /\ coord' = [coord EXCEPT !.blockNum = @ - 1]
            /\ hist' = [hist EXCEPT !.enq = Append(@, coord.blockNum)]
            /\ blockNumClosed' = blockNumClosed
       ELSE /\ blockNumClosed' = TRUE
            /\ coord' = [coord EXCEPT !.pc = "done"]
            /\ UNCHANGED <<blockNumChan, hist>>
    /\ UNCHANGED <<tip, history, flz, cfg, err, fatal, fetcher, jobChan,
                   jobClosed, worker, est, bootstrapCount, bootstrapDone,
                   resultChan, resultClosed, writer, output, mainPc, zcall>>

\* --- fetcher goroutines --------------------------------------------------
FetcherDial(f) ==
    /\ Running /\ fetcher[f].pc = "dial"
    /\ \E ok \in DialOutcomes :
          /\ err' = ErrOf(ok)
          /\ fetcher' = [fetcher EXCEPT ![f].pc = "dialchk", ![f].client = ok]
    /\ UNCHANGED <<tip, history, flz, cfg, fatal, coord, blockNumChan, blockNumClosed, jobChan,
                   jobClosed, worker, est, bootstrapCount, bootstrapDone,
                   resultChan, resultClosed, writer, output, mainPc, hist,
                   zcall>>

FetcherDialCheck(f) ==
    /\ Running /\ fetcher[f].pc = "dialchk"
    /\ IF err # ErrNil
       THEN /\ fetcher' = [fetcher EXCEPT ![f].pc = "done"]
            /\ hist' = [hist EXCEPT !.noClient = @ \cup {f}]
       ELSE /\ fetcher' = [fetcher EXCEPT ![f].pc = "take"]
            /\ hist' = hist
    /\ UNCHANGED <<tip, history, flz, cfg, err, fatal, coord, blockNumChan, blockNumClosed,
                   jobChan, jobClosed, worker, est, bootstrapCount,
                   bootstrapDone, resultChan, resultClosed, writer, output,
                   mainPc, zcall>>

\* for blockNum := range blockNumChan
FetcherTake(f) ==
    /\ Running /\ fetcher[f].pc = "take"
    /\ IF blockNumChan # <<>>
       THEN /\ blockNumChan' = Tail(blockNumChan)
            /\ fetcher' = [fetcher EXCEPT ![f].pc = "call",
                                           ![f].blockNum = Head(blockNumChan),
                                           ![f].block = Nil,
                                           ![f].attempt = 0,
                                           ![f].calls = 0,
                                           ![f].retryDelay = BaseRetryDelay]
            /\ hist' = [hist EXCEPT !.takes[Head(blockNumChan)] = @ + 1]
       ELSE /\ blockNumClosed
            /\ fetcher' = [fetcher EXCEPT ![f].pc = "done"]
            /\ UNCHANGED <<blockNumChan, hist>>
    /\ UNCHANGED <<tip, history, flz, cfg, err, fatal, coord, blockNumClosed, jobChan, jobClosed,
                   worker, est, bootstrapCount, bootstrapDone, resultChan,
                   resultClosed, writer, output, mainPc, zcall>>

\* block, err = fetcherClient.BlockByNumber(ctx, blockNum)
FetcherCall(f) ==
    /\ Running /\ fetcher[f].pc = "call"
    /\ IF ~fetcher[f].client
       THEN /\ fatal' = TRUE
            /\ fetcher' = [fetcher EXCEPT ![f].pc = "panic"]
            /\ UNCHANGED <<err, hist>>
       ELSE /\ fatal' = fatal
            /\ \E ok \in FetchOutcomes(fetcher[f].blockNum) :
                  /\ err' = ErrOf(ok)
                  /\ fetcher' = [fetcher EXCEPT
                        ![f].pc = "chk",
                        ![f].block = IF ok THEN fetcher[f].blockNum ELSE Nil,
                        ![f].calls = @ + 1]
                  /\ hist' = IF ok
                        THEN [hist EXCEPT !.fetched = @ \cup {fetcher[f].blockNum}]
                        ELSE hist
    /\ UNCHANGED <<tip, history, flz, cfg, coord, blockNumChan, blockNumClosed, jobChan,
                   jobClosed, worker, est, bootstrapCount, bootstrapDone,
                   resultChan, resultClosed, writer, output, mainPc, zcall>>

\* if err == nil { break }; if attempt < maxRetries-1 { Sleep; retryDelay *= 2 }
\* attempt++ ; loop condition attempt < maxRetries
FetcherCheck(f) ==
    /\ Running /\ fetcher[f].pc = "chk"
    /\ IF err = ErrNil
       THEN fetcher' = [fetcher EXCEPT ![f].pc = "post"]
       ELSE fetcher' = [fetcher EXCEPT
              ![f].retryDelay = IF fetcher[f].attempt < maxRetries - 1
                                THEN 2 * @ ELSE @,
              ![f].attempt = @ + 1,
              ![f].pc = IF fetcher[f].attempt + 1 < maxRetries
                        THEN "call" ELSE "post"]
    /\ UNCHANGED <<tip, history, flz, cfg, err, fatal, coord, blockNumChan, blockNumClosed,
                   jobChan, jobClosed, worker, est, bootstrapCount,
                   bootstrapDone, resultChan, resultClosed, writer, output,
                   mainPc, hist, zcall>>

\* if err != nil { log; continue }
FetcherAfterLoop(f) ==
    /\ Running /\ fetcher[f].pc = "post"
    /\ IF err # ErrNil
       THEN /\ fetcher' = [fetcher EXCEPT ![f].pc = "take"]
            /\ hist' = [hist EXCEPT !.drops[fetcher[f].blockNum] = @ + 1]
       ELSE /\ fetcher' = [fetcher EXCEPT ![f].pc = "push"]
            /\ hist' = hist
    /\ UNCHANGED <<tip, history, flz, cfg, err, fatal, coord, blockNumChan, blockNumClosed,
                   jobChan, jobClosed, worker, est, bootstrapCount,
                   bootstrapDone, resultChan, resultClosed, writer, output,
                   mainPc, zcall>>

\* a fetcher that feeds its block's first payload to the estimator itself
\* before handing the block over
FetcherPushEstimating(f) ==
    /\ Running /\ fetcher[f].pc = "push"
    /\ CanSend(jobChan, JobChanCap)
    /\ jobChan' = Append(jobChan, fetcher[f].block)
    /\ fetcher' = [fetcher EXCEPT ![f].pc = "take"]
    /\ hist' = [hist EXCEPT
                  !.pushed = Append(@, [n |-> fetcher[f].blockNum,
                                        block |-> fetcher[f].block])]
    /\ est' = ZlibWrite(est, FlushLen(<<>>)).est
    /\ UNCHANGED <<tip, history, flz, cfg, err, fatal, coord, blockNumChan, blockNumClosed,
                   jobClosed, worker, bootstrapCount, bootstrapDone,
                   resultChan, resultClosed, writer, output, mainPc, zcall>>

\* jobChan <- BlockJob{Block: block}
FetcherPush(f) ==
    /\ Running /\ fetcher[f].pc = "push"
    /\ CanSend(jobChan, JobChanCap)
    /\ jobChan' = Append(jobChan, fetcher[f].block)
    /\ fetcher' = [fetcher EXCEPT ![f].pc = "take"]
    /\ hist' = [hist EXCEPT
                  !.pushed = Append(@, [n |-> fetcher[f].blockNum,
                                        block |-> fetcher[f].block])]
    /\ UNCHANGED <<tip, history, flz, cfg, err, fatal, coord, blockNumChan, blockNumClosed,
                   jobClosed, worker, bootstrapCount, bootstrapDone,
                   resultChan, resultClosed, writer, output, mainPc, zcall>>
    /\ est' = est

\* go func() { fetcherWg.Wait(); close(jobChan) }()
CloseJobs ==
    /\ Running /\ ~jobClosed
    /\ \A f \in Fetchers : fetcher[f].pc = "done"
    /\ jobClosed' = TRUE
    /\ UNCHANGED <<tip, history, flz, cfg, err, fatal, coord, blockNumChan, blockNumClosed,
                   fetcher, jobChan, worker, est, bootstrapCount,
                   bootstrapDone, resultChan, resultClosed, writer, output,
                   mainPc, hist, zcall>>

\* --- worker goroutine ----------------------------------------------------
\* receive on jobChan: the oldest job, the rest stays queued
JobRecvHighest(ch) ==
    LET i == CHOOSE j \in 1..Len(ch) : \A k \in 1..Len(ch) : ch[k] <= ch[j]
    IN [job |-> ch[i],
        rest |-> SubSeq(ch, 1, i - 1) \o SubSeq(ch, i + 1, Len(ch))]

JobRecv(ch) == [job |-> Head(ch), rest |-> Tail(ch)]

\* for job := range jobChan { if block == nil { log; continue } ... }
WorkerRecv ==
    /\ Running /\ worker.pc = "recv"
    /\ IF jobChan # <<>>
       THEN LET block == JobRecv(jobChan).job
            IN /\ jobChan' = JobRecv(jobChan).rest
               /\ hist' = [hist EXCEPT
                             !.consumed = Append(@, block),
                             !.nilJobs = IF block = Nil THEN @ + 1 ELSE @,
                             !.settled = IF block # Nil /\ bootstrapDone
                                         THEN @ \cup {block} ELSE @]
               /\ worker' = IF block = Nil \/ cfg.chain[block] = <<>>
                             THEN worker
                             ELSE [pc |-> "tx", block |-> block, idx |-> 1]
       ELSE /\ jobClosed
            /\ worker' = [worker EXCEPT !.pc = "done"]
            /\ UNCHANGED <<jobChan, hist>>
    /\ UNCHANGED <<tip, history, flz, cfg, err, fatal, coord, blockNumChan, blockNumClosed,
                   fetcher, jobClosed, est, bootstrapCount, bootstrapDone,
                   resultChan, resultClosed, writer, output, mainPc, zcall>>

TxResult(blockNumber, best, b) ==
    [BlockNumber |-> blockNumber,
     Best |-> best,
     Fastlz |-> Uint32(FlzCompressLen(b)),
     Zeroes |-> Uint32(CountZeroes(b)),
     NonZeroes |-> Uint32(CountNonZeroes(b))]

\* bootstrapCount++; if bootstrapCount >= bootstrapTxs { bootstrapDone = true }
BootstrapStep(count, done, limit) ==
    [count |-> count + 1, done |-> count + 1 >= limit]

\* tx.Type() == types.DepositTxType
IsDepositNever(tx) == FALSE

IsDeposit(tx) == tx.kind = "deposit"

\* b, err := tx.MarshalBinary(); err != nil
MarshalNeverFails(tx) == FALSE

MarshalFailed(tx) == ~tx.ok

\* one iteration of "for _, tx := range block.Transactions()"
WorkerTxBackwards ==
    /\ Running /\ worker.pc = "tx"
    /\ LET txs == cfg.chain[worker.block]
           tx == txs[Len(txs) + 1 - worker.idx]
           b == TrimSig(tx.bytes)
           r == ZlibWrite(est, FlushLen(b))
           bs == BootstrapStep(bootstrapCount, bootstrapDone, cfg.bootstrapTxs)
           next == IF worker.idx = Len(txs)
                   THEN [worker EXCEPT !.pc = "recv"]
                   ELSE [worker EXCEPT !.idx = @ + 1]
       IN /\ worker' = next
          /\ IF IsDeposit(tx)
             THEN UNCHANGED <<est, bootstrapCount, bootstrapDone, resultChan,
                              hist, zcall>>
             ELSE IF MarshalFailed(tx)
                  THEN /\ hist' = [hist EXCEPT !.marshalErrors = @ + 1]
                       /\ UNCHANGED <<est, bootstrapCount, bootstrapDone,
                                       resultChan, zcall>>
                  ELSE IF ~bootstrapDone
                       THEN /\ est' = r.est
                            /\ zcall' = CallRecord(r, zcall.n + 1)
                            /\ bootstrapCount' = bs.count
                            /\ bootstrapDone' = bs.done
                            /\ hist' = [hist EXCEPT !.eligible = @ + 1]
                            /\ resultChan' = resultChan
                       ELSE /\ CanSend(resultChan, ResultChanCap)
                            /\ est' = r.est
                            /\ zcall' = CallRecord(r, zcall.n + 1)
                            /\ resultChan' = Append(resultChan,
                                   TxResult(worker.block, r.ret, b))
                            /\ hist' = [hist EXCEPT !.eligible = @ + 1,
                                                     !.emitted = @ + 1]
                            /\ UNCHANGED <<bootstrapCount, bootstrapDone>>
    /\ UNCHANGED <<tip, history, flz, cfg, err, fatal, coord, blockNumChan, blockNumClosed,
                   fetcher, jobChan, jobClosed, resultClosed, writer, output,
                   mainPc>>

WorkerTx ==
    /\ Running /\ worker.pc = "tx"
    /\ LET txs == cfg.chain[worker.block]
           tx == txs[worker.idx]
           b == TrimSig(tx.bytes)
           r == ZlibWrite(est, FlushLen(b))
           bs == BootstrapStep(bootstrapCount, bootstrapDone, cfg.bootstrapTxs)
           next == IF worker.idx = Len(txs)
                   THEN [worker EXCEPT !.pc = "recv"]
                   ELSE [worker EXCEPT !.idx = @ + 1]
       IN /\ worker' = next
          /\ IF IsDeposit(tx)
             THEN UNCHANGED <<est, bootstrapCount, bootstrapDone, resultChan,
                              hist, zcall>>
             ELSE IF MarshalFailed(tx)
                  THEN /\ hist' = [hist EXCEPT !.marshalErrors = @ + 1]
                       /\ UNCHANGED <<est, bootstrapCount, bootstrapDone,
                                       resultChan, zcall>>
                  ELSE IF ~bootstrapDone
                       THEN /\ est' = r.est
                            /\ zcall' = CallRecord(r, zcall.n + 1)
                            /\ bootstrapCount' = bs.count
                            /\ bootstrapDone' = bs.done
                            /\ hist' = [hist EXCEPT !.eligible = @ + 1]
                            /\ resultChan' = resultChan
                       ELSE /\ CanSend(resultChan, ResultChanCap)
                            /\ est' = r.est
                            /\ zcall' = CallRecord(r, zcall.n + 1)
                            /\ resultChan' = Append(resultChan,
                                   TxResult(worker.block, r.ret, b))
                            /\ hist' = [hist EXCEPT !.eligible = @ + 1,
                                                     !.emitted = @ + 1]
                            /\ UNCHANGED <<bootstrapCount, bootstrapDone>>
    /\ UNCHANGED <<tip, history, flz, cfg, err, fatal, coord, blockNumChan, blockNumClosed,
                   fetcher, jobChan, jobClosed, resultClosed, writer, output,
                   mainPc>>

\* --- writer goroutine ----------------------------------------------------
\* binary.Write(output, binary.LittleEndian, v) for a uint32 v
PutUint32BigEndian(u) == <<u.hi \div 256, u.hi % 256, u.lo \div 256, u.lo % 256>>

PutUint32(u) == <<u.lo % 256, u.lo \div 256, u.hi % 256, u.hi \div 256>>

RecordFields(result) ==
    <<Uint32(result.BlockNumber), result.Best, result.Fastlz, result.Zeroes,
      result.NonZeroes>>

\* The five binary.Write calls for one result; the calls in failed write
\* nothing and their error is discarded: no line is logged for them
\* (hist.writeErrLogs stays as it is).
WriteRecord(out, result, failed) ==
    LET fields == RecordFields(result)
        enc(i) == IF i \in failed THEN <<>> ELSE PutUint32(fields[i])
    IN out \o enc(1) \o enc(2) \o enc(3) \o enc(4) \o enc(5)

WriteFailures ==
    IF cfg.writeFaults
    THEN {m \in SUBSET (1..5) : Cardinality(m) <= writer.failsLeft}
    ELSE {{}}

\* one iteration of "for result := range resultChan"
WriterWriteNewestFirst ==
    /\ Running /\ writer.pc = "run" /\ resultChan # <<>>
    /\ LET result == resultChan[Len(resultChan)]
       IN \E failed \in WriteFailures :
            /\ output' = WriteRecord(output, result, failed)
            /\ writer' = [writer EXCEPT
                            !.resultCount = @ + 1,
                            !.lastBlock = result.BlockNumber,
                            !.failsLeft = @ - Cardinality(failed)]
            /\ hist' = [hist EXCEPT
                          !.written = Append(@, [result |-> result,
                                                 failed |-> failed])]
    /\ resultChan' = SubSeq(resultChan, 1, Len(resultChan) - 1)
    /\ UNCHANGED <<tip, history, flz, cfg, err, fatal, coord, blockNumChan, blockNumClosed,
                   fetcher, jobChan, jobClosed, worker, est, bootstrapCount,
                   bootstrapDone, resultClosed, mainPc, zcall>>

WriterWrite ==
    /\ Running /\ writer.pc = "run" /\ resultChan # <<>>
    /\ LET result == Head(resultChan)
       IN \E failed \in WriteFailures :
            /\ output' = WriteRecord(output, result, failed)
            /\ writer' = [writer EXCEPT
                            !.resultCount = @ + 1,
                            !.lastBlock = result.BlockNumber,
                            !.failsLeft = @ - Cardinality(failed)]
            /\ hist' = [hist EXCEPT
                          !.written = Append(@, [result |-> result,
                                                 failed |-> failed])]
    /\ resultChan' = Tail(resultChan)
    /\ UNCHANGED <<tip, history, flz, cfg, err, fatal, coord, blockNumChan, blockNumClosed,
                   fetcher, jobChan, jobClosed, worker, est, bootstrapCount,
                   bootstrapDone, resultClosed, mainPc, zcall>>

\* --- main ------------------------------------------------------------------
\* wg.Wait(); close(resultChan)
MainCloseResults ==
    /\ Running /\ mainPc = "waitWorker" /\ worker.pc = "done"
    /\ resultClosed' = TRUE
    /\ mainPc' = "waitWriter"
    /\ UNCHANGED <<tip, history, flz, cfg, err, fatal, coord, blockNumChan, blockNumClosed,
                   fetcher, jobChan, jobClosed, worker, est, bootstrapCount,
                   bootstrapDone, resultChan, writer, output, hist, zcall>>

\* writer: writerDone <- true; main: <-writerDone; "All processing complete"
WriterDone ==
    /\ Running /\ writer.pc = "run" /\ mainPc = "waitWriter"
    /\ resultChan = <<>> /\ resultClosed
    /\ writer' = [writer EXCEPT !.pc = "done"]
    /\ mainPc' = "done"
    /\ UNCHANGED <<tip, history, flz, cfg, err, fatal, coord, blockNumChan, blockNumClosed,
                   fetcher, jobChan, jobClosed, worker, est, bootstrapCount,
                   bootstrapDone, resultChan, resultClosed, output, hist,
                   zcall>>

\* ------------------------------------------------------------------------
\* Specifications
\* ------------------------------------------------------------------------
\* the block the source serves for number n
SourceBlock(kind, n) ==
    CASE kind = "single" -> SingleChain(n)
      [] kind = "mixed" -> MixedChain(n)
      [] kind = "plain" -> PlainChain(n)
      [] kind = "triple" -> TripleChain(n)
      [] kind = "bulk" -> BulkChain(n)

Config(start, stop, bootstrap, kind, dial, flaky, write) ==
    [start |-> start, endBlock |-> stop, bootstrapTxs |-> bootstrap,
     chain |-> [n \in (stop + 1)..start |-> SourceBlock(kind, n)],
     dialFaults |-> dial, flaky |-> flaky, writeFaults |-> write]

InitPipeline ==
    /\ err = ErrNil
    /\ fatal = FALSE
    /\ coord = [pc |-> "dial", client |-> FALSE, startingBlock |-> Nil,
                blockNum |-> 0]
    /\ blockNumChan = <<>> /\ blockNumClosed = FALSE
    /\ fetcher = [f \in Fetchers |->
                    [pc |-> "dial", client |-> FALSE, blockNum |-> 0,
                     block |-> Nil, attempt |-> 0, retryDelay |-> 0,
                     calls |-> 0]]
    /\ jobChan = <<>> /\ jobClosed = FALSE
    /\ worker = [pc |-> "recv", block |-> Nil, idx |-> 0]
    /\ est = newZlibBatchEstimator
    /\ bootstrapCount = 0 /\ bootstrapDone = FALSE
    /\ resultChan = <<>> /\ resultClosed = FALSE
    /\ writer = [pc |-> "run", resultCount |-> 0, lastBlock |-> 0,
                 failsLeft |-> MaxWriteFailures]
    /\ output = <<>>
    /\ mainPc = "waitWorker"
    /\ hist = [enq |-> <<>>,
               takes |-> [n \in BlockRange |-> 0],
               fetched |-> {},
               drops |-> [n \in BlockRange |-> 0],
               pushed |-> <<>>, consumed |-> <<>>, nilJobs |-> 0,
               marshalErrors |-> 0, eligible |-> 0, emitted |-> 0,
               noClient |-> {}, written |-> <<>>, writeErrLogs |-> 0,
               settled |-> {}]
    /\ zcall = NoCall

\* no call of FlzCompressLen made yet, x the argument of the next one
NoFlzResult ==
    [n |-> 0, mr |-> -1, matches |-> 0, ipLimit |-> 0, ip |-> 0,
     probes |-> 0, lastProbe |-> -1, ops |-> <<>>, ht0 |-> <<>>, ht |-> <<>>]

FlzIdle(x) ==
    [pc |-> "idle", ib |-> x, out |-> NoFlzResult, left |-> <<>>,
     calls |-> 0, first |-> [ib |-> <<>>, n |-> 0], prevIb |-> <<>>]

\* the priority-fee monitor, not started
TipIdle ==
    [pc |-> "idle", faults |-> {}, head |-> 0, polls |-> 0,
     lastBlockNumber |-> 0, blockNumber |-> 0, rows |-> <<>>,
     observed |-> {}, failed |-> {}]

\* the block-history exporter, not started
HistoryIdle ==
    [pc |-> "idle", latestBlockNumber |-> 0, blockCount |-> 1,
     maxConcurrent |-> 1, flaky |-> {}, startBlockNumber |-> 0,
     blockNum |-> 0, semaphore |-> 0, wg |-> 0, worker |-> <<>>,
     resultChan |-> <<>>, closed |-> FALSE, results |-> <<>>,
     rows |-> <<>>, blocksFetched |-> 0, blocksFailed |-> 0,
     finished |-> <<>>]

InitRun ==
    /\ InitPipeline
    /\ flz = FlzIdle(<<>>)
    /\ history = HistoryIdle
    /\ tip = TipIdle

\* Runs in which the fetch of one block of the range may fail on any
\* attempt (the range one block shorter than MaxBlocks, and at full length
\* in RacingFetchRuns); runs with a reliable block source and any bootstrap
\* count; runs of one block with an output file whose writes may fail.
FaultyFetchRuns ==
    {Config(endBlock + k, endBlock, 0, "single", FALSE, {endBlock + 1}, FALSE) :
       k \in 0..(MaxBlocks - 1)}

RacingFetchRuns ==
    {Config(endBlock + MaxBlocks, endBlock, 0, "single", FALSE, {b}, FALSE) :
       b \in (endBlock + 1)..(endBlock + MaxBlocks)}

EstimatorRuns ==
    {Config(endBlock + MaxBlocks, endBlock, n, "mixed", FALSE, {}, FALSE) :
       n \in 0..MaxBootstrap}

FaultyOutputRuns ==
    {Config(endBlock + 1, endBlock, 0, "triple", FALSE, {}, TRUE)}

Init ==
    /\ cfg \in FaultyFetchRuns \cup EstimatorRuns \cup FaultyOutputRuns
    /\ InitRun

InitRacingFetch ==
    /\ cfg \in RacingFetchRuns
    /\ InitRun

\* The end-to-end scenario: blocks 100..104, stop boundary 99, two
\* non-deposit transactions per block, bootstrap count 0, no failures.
InitEndToEnd ==
    /\ cfg = Config(104, 99, 0, "plain", FALSE, {}, FALSE)
    /\ InitRun

\* Runs long enough to fill the block-number queue and the job queue at
\* once: one number in the coordinator's hand, BlockNumChanCap queued, one
\* block in a fetcher's hand, JobChanCap queued.  The state is the one
\* reached once every fetcher but the first has failed to dial and returned
\* (lines 207-211) before the others took a step.
BacklogLen == BlockNumChanCap + JobChanCap + 2

BacklogRun ==
    Config(endBlock + BacklogLen, endBlock, BacklogLen, "single", TRUE, {}, FALSE)

NoClientFetcher ==
    [pc |-> "done", client |-> FALSE, blockNum |-> 0, block |-> Nil,
     attempt |-> 0, retryDelay |-> 0, calls |-> 0]

IdleFetcher ==
    [pc |-> "done", client |-> TRUE, blockNum |-> 0, block |-> Nil,
     attempt |-> 0, retryDelay |-> 0, calls |-> 0]

InitJobBacklog ==
    /\ cfg = BacklogRun
    /\ err = ErrFail
    /\ fatal = FALSE
    /\ coord = [pc |-> "dial", client |-> FALSE, startingBlock |-> Nil,
                blockNum |-> 0]
    /\ blockNumChan = <<>> /\ blockNumClosed = FALSE
    /\ fetcher = [f \in Fetchers |->
                    IF f = 1
                    THEN [pc |-> "dial", client |-> FALSE, blockNum |-> 0,
                          block |-> Nil, attempt |-> 0, retryDelay |-> 0,
                          calls |-> 0]
                    ELSE NoClientFetcher]
    /\ jobChan = <<>> /\ jobClosed = FALSE
    /\ worker = [pc |-> "recv", block |-> Nil, idx |-> 0]
    /\ est = newZlibBatchEstimator
    /\ bootstrapCount = 0 /\ bootstrapDone = FALSE
    /\ resultChan = <<>> /\ resultClosed = FALSE
    /\ writer = [pc |-> "run", resultCount |-> 0, lastBlock |-> 0,
                 failsLeft |-> MaxWriteFailures]
    /\ output = <<>>
    /\ mainPc = "waitWorker"
    /\ hist = [enq |-> <<>>,
               takes |-> [n \in BlockRange |-> 0],
               fetched |-> {},
               drops |-> [n \in BlockRange |-> 0],
               pushed |-> <<>>, consumed |-> <<>>, nilJobs |-> 0,
               marshalErrors |-> 0, eligible |-> 0, emitted |-> 0,
               noClient |-> Fetchers \ {1}, written |-> <<>>,
               writeErrLogs |-> 0, settled |-> {}]
    /\ zcall = NoCall
    /\ flz = FlzIdle(<<>>)
    /\ history = HistoryIdle
    /\ tip = TipIdle

\* A run of one block of ResultChanCap + 2 transactions, at the state in
\* which the worker has filled the result queue while the writer has not
\* been scheduled yet: the coordinator and the fetchers have returned, the
\* first transaction went to the bootstrap (lines 97-105), the next
\* ResultChanCap ones are queued and the worker holds the last one.
BulkRun == Config(endBlock + 1, endBlock, 0, "bulk", FALSE, {}, FALSE)

BulkCalls == ResultChanCap + 1
BulkFlush == FlushLen(TrimSig(TxA.bytes))
BulkCall(n) == CallRecord(ZlibWrite(
    [b |-> [i \in Slots |-> IF i = 1 THEN ZlibHeaderLen + (n - 1) * BulkFlush
                                      ELSE 0],
     w |-> [i \in Slots |-> IF i = 1
                            THEN [id |-> 1, dst |-> 1, wroteHeader |-> TRUE,
                                  writes |-> n - 1]
                            ELSE NewSession(0)]], BulkFlush), n)

InitResultBacklog ==
    /\ cfg = BulkRun
    /\ err = ErrNil
    /\ fatal = FALSE
    /\ coord = [pc |-> "done", client |-> TRUE,
                startingBlock |-> endBlock + 1, blockNum |-> endBlock]
    /\ blockNumChan = <<>> /\ blockNumClosed = TRUE
    /\ fetcher = [f \in Fetchers |->
                    IF f = 1
                    THEN [pc |-> "done", client |-> TRUE,
                          blockNum |-> endBlock + 1, block |-> endBlock + 1,
                          attempt |-> 0, retryDelay |-> BaseRetryDelay,
                          calls |-> 1]
                    ELSE IdleFetcher]
    /\ jobChan = <<>> /\ jobClosed = TRUE
    /\ worker = [pc |-> "tx", block |-> endBlock + 1, idx |-> BulkCalls + 1]
    /\ est = [b |-> [i \in Slots |-> IF i = 1
                        THEN ZlibHeaderLen + BulkCalls * BulkFlush ELSE 0],
              w |-> [i \in Slots |-> IF i = 1
                        THEN [id |-> 1, dst |-> 1, wroteHeader |-> TRUE,
                              writes |-> BulkCalls]
                        ELSE NewSession(0)]]
    /\ bootstrapCount = 1 /\ bootstrapDone = TRUE
    /\ resultChan = [i \in 1..ResultChanCap |->
                       TxResult(endBlock + 1, BulkCall(i + 1).ret,
                                TrimSig(TxA.bytes))]
    /\ resultClosed = FALSE
    /\ writer = [pc |-> "run", resultCount |-> 0, lastBlock |-> 0,
                 failsLeft |-> MaxWriteFailures]
    /\ output = <<>>
    /\ mainPc = "waitWorker"
    /\ hist = [enq |-> <<endBlock + 1>>,
               takes |-> [n \in BlockRange |-> 1],
               fetched |-> {endBlock + 1},
               drops |-> [n \in BlockRange |-> 0],
               pushed |-> <<[n |-> endBlock + 1, block |-> endBlock + 1]>>,
               consumed |-> <<endBlock + 1>>, nilJobs |-> 0,
               marshalErrors |-> 0, eligible |-> BulkCalls,
               emitted |-> ResultChanCap,
               noClient |-> {}, written |-> <<>>,
               writeErrLogs |-> 0, settled |-> {}]
    /\ zcall = BulkCall(BulkCalls)
    /\ flz = FlzIdle(<<>>)
    /\ history = HistoryIdle
    /\ tip = TipIdle

InitBacklog == InitJobBacklog \/ InitResultBacklog

\* A zlibBatchEstimator on its own, driven by a sequence of writes.
FlushSizes == {1, 5, 30000, 70000, 140000}

InitZlib ==
    /\ cfg = Config(endBlock, endBlock, 0, "single", FALSE, {}, FALSE)
    /\ InitRun

ZlibWriteCall ==
    /\ zcall.n < MaxWrites
    /\ \E k \in FlushSizes :
          LET r == ZlibWrite(est, k)
          IN /\ est' = r.est
             /\ zcall' = CallRecord(r, zcall.n + 1)
    /\ UNCHANGED <<tip, history, flz, cfg, err, fatal, coord, blockNumChan, blockNumClosed,
                   fetcher, jobChan, jobClosed, worker, bootstrapCount,
                   bootstrapDone, resultChan, resultClosed, writer, output,
                   mainPc, hist>>

NextZlib == ZlibWriteCall

\* FlzCompressLen on its own: a first call on any input of FlzInputs, then
\* further calls on the inputs of FlzFollowUps or on the first input again.
\* The inputs are periodic byte sequences of period 1..3 over {0, 1} of every
\* length up to MaxFlzLen, each also with one byte replaced by 255 at any
\* position, and the run of 1000 zero bytes.
FlzPatterns == UNION {[1..p -> {0, 1}] : p \in 1..3}

FlzInput(pat, len, glitch) ==
    [i \in 1..len |-> IF i = glitch THEN 255 ELSE pat[((i - 1) % Len(pat)) + 1]]

ZeroRun == [i \in 1..1000 |-> 0]

FlzInputs ==
    UNION {{FlzInput(pat, len, g) : pat \in FlzPatterns, g \in 0..len} :
             len \in 0..MaxFlzLen}
    \cup {ZeroRun}

FlzFollowUps == {FlzInput(<<0>>, MaxFlzLen, 0), FlzInput(<<0, 1>>, MaxFlzLen, 3)}

InitFlz ==
    /\ cfg = Config(endBlock, endBlock, 0, "single", FALSE, {}, FALSE)
    /\ InitPipeline
    /\ flz \in {FlzIdle(x) : x \in FlzInputs}
    /\ history = HistoryIdle
    /\ tip = TipIdle

FlzCall ==
    /\ flz.pc = "idle"
    /\ \E out \in {FlzExec(flz.ib, MakeTable(flz.left))} :
          flz' = [flz EXCEPT
                    !.pc = "returned", !.out = out, !.left = out.ht,
                    !.calls = @ + 1,
                    !.first = IF flz.calls = 0
                              THEN [ib |-> flz.ib, n |-> out.n] ELSE @]
    /\ UNCHANGED <<tip, history, cfg, err, fatal, coord, blockNumChan, blockNumClosed,
                   fetcher, jobChan, jobClosed, worker, est, bootstrapCount,
                   bootstrapDone, resultChan, resultClosed, writer, output,
                   mainPc, hist, zcall>>

FlzNextInput ==
    /\ flz.pc = "returned" /\ flz.calls < MaxFlzCalls
    /\ \E x \in FlzFollowUps \cup {flz.first.ib} :
          flz' = [flz EXCEPT !.pc = "idle", !.ib = x, !.prevIb = flz.ib]
    /\ UNCHANGED <<tip, history, cfg, err, fatal, coord, blockNumChan, blockNumClosed,
                   fetcher, jobChan, jobClosed, worker, est, bootstrapCount,
                   bootstrapDone, resultChan, resultClosed, writer, output,
                   mainPc, hist, zcall>>

NextFlz == FlzCall \/ FlzNextInput

Next ==
    \/ CoordDial
    \/ CoordDialCheck
    \/ CoordResolve
    \/ CoordResolveCheck
    \/ CoordSend
    \/ \E f \in Fetchers : FetcherDial(f)
    \/ \E f \in Fetchers : FetcherDialCheck(f)
    \/ \E f \in Fetchers : FetcherTake(f)
    \/ \E f \in Fetchers : FetcherCall(f)
    \/ \E f \in Fetchers : FetcherCheck(f)
    \/ \E f \in Fetchers : FetcherAfterLoop(f)
    \/ \E f \in Fetchers : FetcherPush(f)
    \/ CloseJobs
    \/ WorkerRecv
    \/ WorkerTx
    \/ WriterWrite
    \/ MainCloseResults
    \/ WriterDone

Spec == Init /\ [][Next]_vars

SpecRacingFetch == InitRacingFetch /\ [][Next]_vars

SpecEndToEnd == InitEndToEnd /\ [][Next]_vars

SpecBacklog == InitBacklog /\ [][Next]_vars

\* Runs without failures over blocks of two non-deposit transactions each,
\* long enough for the writer to lag several results behind the estimator.
InitOrdering ==
    /\ cfg = Config(endBlock + MaxBlocks + 1, endBlock, 0, "plain", FALSE, {}, FALSE)
    /\ InitRun

SpecOrdering == InitOrdering /\ [][Next]_vars

SpecZlib == InitZlib /\ [][NextZlib]_vars

SpecFlz == InitFlz /\ [][NextFlz]_vars

\* ------------------------------------------------------------------------
\* Properties
\* ------------------------------------------------------------------------
InFlight(n) ==
    \E f \in Fetchers : /\ fetcher[f].blockNum = n
                         /\ fetcher[f].pc \in {"call", "chk", "post", "push"}

Handled(n) == n \in BlockRange /\ hist.takes[n] > 0 /\ ~InFlight(n)

PushesOf(n) == {i \in 1..Len(hist.pushed) : hist.pushed[i].n = n}

\* C1: a block is pushed onto the job queue exactly once, as a complete
\* block, when one of its fetcher's own attempts succeeded, and no job is
\* pushed for a block whose fetch never succeeded, whatever the other
\* fetchers' fetches return.
C1_PushIffOwnFetchSucceeded ==
    /\ \A i \in 1..Len(hist.pushed) :
          /\ hist.pushed[i].n \in hist.fetched
          /\ hist.pushed[i].block = hist.pushed[i].n
    /\ \A n \in hist.fetched :
          Handled(n) => Cardinality(PushesOf(n)) = 1

\* C2: the estimator emits no result for the first bootstrapTxs eligible
\* transactions and one result for each later eligible transaction
\* (bootstrapTxs = 0 included).
C2_BootstrapSkipsExactlyN ==
    hist.emitted = Max(0, hist.eligible - cfg.bootstrapTxs)

\* Records of the output file
RecordLen == 20
NumRecords == Len(output) \div RecordLen
FieldAt(i, j) ==
    LET o == RecordLen * (i - 1) + 4 * (j - 1)
    IN output[o + 1] + 256 * output[o + 2] + 65536 * output[o + 3]
       + 16777216 * output[o + 4]
RecordsOfBlock(n) == {i \in 1..NumRecords : FieldAt(i, 1) = n}

\* C3: the end-to-end run (blocks 100..104, stop 99, two non-deposit
\* transactions per block, bootstrap count 0, no failures) ends with
\* exactly 10 records, every block number 100..104 twice, and
\* zeroes + nonZeroes equal to the payload length in every record.
C3_EndToEndTenRecords ==
    mainPc = "done" =>
        /\ Len(output) = 10 * RecordLen
        /\ \A n \in 100..104 : Cardinality(RecordsOfBlock(n)) = 2
        /\ \A n \in 100..104 : \A i, j \in RecordsOfBlock(n) :
              i < j => /\ FieldAt(i, 4) + FieldAt(i, 5) = Len(cfg.chain[n][1].bytes)
                       /\ FieldAt(j, 4) + FieldAt(j, 5) = Len(cfg.chain[n][2].bytes)

\* C4: when all maxRetries attempts of a fetcher for a block failed, the
\* fetcher does not go on to push a job for it: it logs the drop and takes
\* the next block number.
AllAttemptsFailed(f) ==
    /\ fetcher[f].calls = maxRetries
    /\ fetcher[f].blockNum \notin hist.fetched

C4_ExhaustedBlockIsDropped ==
    \A f \in Fetchers : AllAttemptsFailed(f) => fetcher[f].pc # "push"

\* C5: the coordinator enqueues exactly start, start-1, ..., endBlock+1 in
\* that order, each once and never endBlock itself, then closes the queue;
\* every enqueued number is taken by at most one fetcher and none is lost.
RECURSIVE SumTakes(_)
SumTakes(S) ==
    IF S = {} THEN 0
    ELSE LET n == CHOOSE x \in S : TRUE
         IN hist.takes[n] + SumTakes(S \ {n})

C5_DescendingRangeOnce ==
    /\ \A i \in 1..Len(hist.enq) :
          /\ hist.enq[i] = cfg.start - i + 1
          /\ hist.enq[i] > cfg.endBlock
    /\ blockNumClosed => Len(hist.enq) = Max(0, cfg.start - cfg.endBlock)
    /\ \A n \in BlockRange : hist.takes[n] <= 1
    /\ Len(blockNumChan) + SumTakes(BlockRange) = Len(hist.enq)
    /\ \A i \in 1..Len(blockNumChan) :
          blockNumChan[i] = hist.enq[Len(hist.enq) - Len(blockNumChan) + i]

C5_Witness ==
    /\ blockNumClosed
    /\ Len(hist.enq) = MaxBlocks
    /\ \A n \in BlockRange : hist.takes[n] = 1
    /\ \E f, g \in Fetchers : /\ f # g
                                /\ fetcher[f].blockNum = cfg.start
                                /\ fetcher[g].blockNum = cfg.start - 1

\* C6: the zlibBatchEstimator and the bootstrap counter are changed only by
\* a step of the single worker task processing a transaction; no step of
\* the coordinator, a fetcher, the writer or main changes them.
EstimatorState == <<est, bootstrapCount, bootstrapDone>>

C6_EstimatorOwnedByWorker ==
    [][EstimatorState' # EstimatorState =>
         /\ worker.pc = "tx"
         /\ UNCHANGED <<coord, fetcher, writer, output, mainPc, err,
                         blockNumChan, jobChan>>]_vars

C6_Witness ==
    /\ zcall.n > 0
    /\ bootstrapCount > 0
    /\ \E f \in Fetchers : fetcher[f].pc \in {"call", "chk", "post", "push"}

\* C7: the estimator consumes blocks in the order in which the fetchers
\* pushed them onto the job queue, whatever their numbers; with two or
\* more fetchers that order is not fixed by the input (the witness is a
\* run without any failure in which a lower-numbered block is consumed and
\* written before a higher-numbered one, next to the runs in chain order).
PushedBlocks == [i \in 1..Len(hist.pushed) |-> hist.pushed[i].block]

C7_ConsumedInArrivalOrder ==
    hist.consumed \o jobChan = PushedBlocks

C7_Witness ==
    /\ cfg.flaky = {} /\ ~cfg.writeFaults
    /\ mainPc = "done"
    /\ Len(hist.consumed) >= 2
    /\ hist.consumed[1] < hist.consumed[2]
    /\ NumRecords >= 2
    /\ FieldAt(1, 1) < FieldAt(NumRecords, 1)

\* C8: after every call of write, b[1] is at most 128KB plus what one
\* write emits, and a write that left b[1] above 128KB rotated in the same
\* call.
C8_RollingBufferBounded ==
    zcall.n > 0 =>
        /\ est.b[1] <= RotateLimit + ZlibHeaderLen + zcall.k
        /\ zcall.peak > RotateLimit => zcall.rotated

C8_Witness ==
    /\ zcall.n > 0
    /\ zcall.peak > RotateLimit
    /\ zcall.rotated
    /\ est.b[1] > RotateLimit

\* C9: the delta returned by write is max(0, after - before - 2): 0 when
\* b[1] grew by fewer than 2 bytes, never a wrapped-around negative number.
C9_DeltaNeverNegative ==
    zcall.n > 0 =>
        LET grown == zcall.after - zcall.before
        IN /\ zcall.ret = Uint32(IF grown < SyncBytes THEN 0 ELSE grown - SyncBytes)
           /\ zcall.ret.hi < 32768

C9_Witness ==
    /\ zcall.n > 1
    /\ est.w[1].id = 0
    /\ zcall.after - zcall.before < SyncBytes
    /\ zcall.ret = Uint32(0)

\* C10: a record is written atomically, all five fields or none, so the
\* output length is always a multiple of 20 bytes.
C10_RecordsAtomic == Len(output) % RecordLen = 0

\* C11: a failed write of a record is logged for that record, and the
\* writer goes on: it counts every result it consumed and ends only when
\* the result queue is closed and empty.
FailedRecords == {i \in 1..Len(hist.written) : hist.written[i].failed # {}}

C11_WriteFailureLoggedRunContinues ==
    /\ hist.writeErrLogs = Cardinality(FailedRecords)
    /\ writer.resultCount = Len(hist.written)
    /\ writer.pc = "done" => resultChan = <<>> /\ resultClosed

\* C12: every result the writer consumed is laid out as five little-endian
\* 32-bit fields in the order block number, best, fastlz, zeroes,
\* nonZeroes, nothing before, between or after them; the block number is
\* that of a block holding a transaction with these byte counts; without
\* write failures the output is 20 bytes per consumed result (and 4 bytes
\* shorter for every field write that failed).
Value(u) == u.hi * 65536 + u.lo

FieldIs(i, j, v) ==
    \A k \in 1..4 :
       output[RecordLen * (i - 1) + 4 * (j - 1) + k] = (v \div (256 ^ (k - 1))) % 256

ZeroBytes(b) == Cardinality({k \in 1..Len(b) : b[k] = 0})

C12_RecordLayout ==
    /\ Len(output) = RecordLen * Len(hist.written)
                       - 4 * (MaxWriteFailures - writer.failsLeft)
    /\ ~cfg.writeFaults =>
          /\ Len(output) = RecordLen * writer.resultCount
          /\ \A i \in 1..Len(hist.written) :
                LET r == hist.written[i].result
                IN /\ FieldIs(i, 1, r.BlockNumber)
                   /\ FieldIs(i, 2, Value(r.Best))
                   /\ FieldIs(i, 3, Value(r.Fastlz))
                   /\ FieldIs(i, 4, Value(r.Zeroes))
                   /\ FieldIs(i, 5, Value(r.NonZeroes))
                   /\ r.BlockNumber \in BlockRange
                   /\ \E t \in 1..Len(cfg.chain[r.BlockNumber]) :
                         LET tx == cfg.chain[r.BlockNumber][t]
                         IN /\ tx.kind # "deposit" /\ tx.ok
                            /\ FieldIs(i, 4, ZeroBytes(tx.bytes))
                            /\ FieldIs(i, 5, Len(tx.bytes) - ZeroBytes(tx.bytes))

C12_Witness ==
    /\ ~cfg.writeFaults
    /\ mainPc = "done"
    /\ Len(output) = 2 * RecordLen
    /\ FieldIs(1, 1, cfg.start - 1)
    /\ FieldIs(2, 1, cfg.start)

\* C13: FlzCompressLen reads no index >= len(ib), whatever the input: the
\* highest index read by u24, cmp and setNextHash is below the length, the
\* scan limit is len-13 and 0 for len < 13 (never a wrapped value), and no
\* position beyond the scan limit is probed.
C13_ReadsInBounds ==
    flz.pc = "returned" =>
        LET len == Len(flz.ib)
        IN /\ flz.out.mr < len
           /\ flz.out.ipLimit >= 0
           /\ len >= 13 => flz.out.ipLimit + 13 = len
           /\ len < 13 => flz.out.ipLimit = 0
           /\ flz.out.lastProbe <= flz.out.ipLimit
           /\ flz.out.ip >= flz.out.ipLimit

C13_Witness ==
    /\ flz.pc = "returned"
    /\ Len(flz.ib) > 15
    /\ flz.out.matches > 1
    /\ flz.out.mr = Len(flz.ib) - 4

\* C14: for an input of length L in 0..12 no match is searched (no table
\* probe, no read of the input, no match) and the value returned is the
\* cost of L literals: 0 for L = 0, L + 1 otherwise.
C14_ShortInputAllLiterals ==
    (flz.pc = "returned" /\ Len(flz.ib) <= 12) =>
        /\ flz.out.probes = 0 /\ flz.out.matches = 0 /\ flz.out.mr = -1
        /\ flz.out.ops = <<Literals(Len(flz.ib))>>
        /\ flz.out.n = IF Len(flz.ib) = 0 THEN 0 ELSE Len(flz.ib) + 1

C14_Witness ==
    /\ flz.pc = "returned"
    /\ Len(flz.ib) = 5
    /\ flz.out.n = 6

\* C15: a call of FlzCompressLen starts from an all-zero table and returns
\* for an input the value it returned for it on the first call, whatever
\* calls on other inputs came in between; a call leaves the zlib estimator
\* and the bootstrap state as they are.
C15_NoStateAcrossCalls ==
    /\ [](flz.pc = "returned" =>
            /\ \A h \in DOMAIN flz.out.ht0 : flz.out.ht0[h] = 0
            /\ flz.ib = flz.first.ib => flz.out.n = flz.first.n)
    /\ [][flz' # flz => UNCHANGED <<est, bootstrapCount, bootstrapDone, zcall>>]_vars

C15_Witness ==
    /\ flz.pc = "returned"
    /\ flz.calls = 3
    /\ flz.ib = flz.first.ib
    /\ flz.prevIb # flz.ib
    /\ Len(flz.prevIb) = MaxFlzLen
    /\ flz.out.matches > 0

\* C16: for 1000 zero bytes FlzCompressLen returns 21, far below 1000: a
\* literal run of 2 bytes (cost 3), one match over the next 993 bytes
\* (cost 12) and a literal tail of 5 bytes (cost 6).
C16_ZeroRunCost ==
    (flz.pc = "returned" /\ flz.ib = ZeroRun) =>
        /\ flz.out.ops = <<Literals(2), Match(991), Literals(5)>>
        /\ 2 + (991 + 2) + 5 = Len(flz.ib)
        /\ flz.out.n = 3 + 12 + 6
        /\ flz.out.n < 1000

C16_Witness ==
    /\ flz.pc = "returned"
    /\ flz.ib = ZeroRun
    /\ flz.out.matches = 1
    /\ flz.out.n = 21

\* Transactions the worker has gone through so far, as <<block, index>>
Visited(n, i) ==
    IF worker.pc = "tx" /\ worker.block = n
    THEN i < worker.idx
    ELSE \E k \in 1..Len(hist.consumed) : hist.consumed[k] = n

VisitedTxs ==
    {p \in UNION {{<<n, i>> : i \in 1..Len(cfg.chain[n])} : n \in BlockRange} :
       Visited(p[1], p[2])}

TxOf(p) == cfg.chain[p[1]][p[2]]

Finished(n) ==
    /\ \E k \in 1..Len(hist.consumed) : hist.consumed[k] = n
    /\ ~(worker.pc = "tx" /\ worker.block = n)

ResultsOf(n) ==
    Cardinality({i \in 1..Len(resultChan) : resultChan[i].BlockNumber = n})
    + Cardinality({i \in 1..Len(hist.written) :
                     hist.written[i].result.BlockNumber = n})

NonDeposits(txs) == {i \in 1..Len(txs) : txs[i].kind # "deposit"}

Unserializable(txs) == {i \in NonDeposits(txs) : ~txs[i].ok}

C19_MarshalFailureSkipsOneTx ==
    /\ [](/\ hist.marshalErrors
               = Cardinality({p \in VisitedTxs :
                                TxOf(p).kind # "deposit" /\ ~TxOf(p).ok})
          /\ zcall.n
               = Cardinality({p \in VisitedTxs :
                                TxOf(p).kind # "deposit" /\ TxOf(p).ok})
          /\ bootstrapCount + Len(resultChan) + Len(hist.written) = zcall.n)
    /\ [][(/\ worker.pc = "tx"
            /\ cfg.chain[worker.block][worker.idx].kind # "deposit"
            /\ ~cfg.chain[worker.block][worker.idx].ok
            /\ worker' # worker)
           => /\ UNCHANGED <<est, bootstrapCount, bootstrapDone, resultChan,
                              zcall>>
              /\ hist'.marshalErrors = hist.marshalErrors + 1
              /\ worker' = IF worker.idx < Len(cfg.chain[worker.block])
                            THEN [worker EXCEPT !.idx = @ + 1]
                            ELSE [worker EXCEPT !.pc = "recv"]]_vars

C19_Witness ==
    /\ mainPc = "done"
    /\ hist.marshalErrors = 1
    /\ Len(hist.written) = 2
    /\ Len(hist.consumed) = 2
    /\ cfg.chain[hist.consumed[1]] = <<TxA, TxBad, TxB>>
    /\ hist.written[1].result.BlockNumber = hist.consumed[1]
    /\ hist.written[1].result.Zeroes = Uint32(2)
    /\ hist.written[2].result.BlockNumber = hist.consumed[2]

\* ------------------------------------------------------------------------
\* C18: every queue between two stages is bounded and its sender blocks
\* when it is full: the block-number queue never holds more than 10 * N
\* numbers, the job queue never more than 20 blocks, the result queue never
\* more than 1000 results; the blocks fetched and not yet taken by the
\* estimator (queued, or in the hand of the fetcher that fetched them) never
\* number more than 20 + N; the numbers the coordinator has sent and no
\* fetcher has taken never number more than 10 * N; and no step adds to a
\* queue that is full.
Holding(f) == fetcher[f].pc \in {"chk", "post", "push"} /\ fetcher[f].block # Nil

FetchedNotTaken == Len(jobChan) + Cardinality({f \in Fetchers : Holding(f)})

CoordLead == Len(hist.enq) - SumTakes(BlockRange)

SendsOnlyWithRoom ==
    /\ (Len(blockNumChan') > Len(blockNumChan))
          => (Len(blockNumChan) < BlockNumChanCap)
    /\ (Len(jobChan') > Len(jobChan)) => (Len(jobChan) < JobChanCap)
    /\ (Len(resultChan') > Len(resultChan))
          => (Len(resultChan) < ResultChanCap)

C18_QueuesBounded ==
    /\ [](/\ Len(blockNumChan) <= BlockNumChanCap
          /\ Len(jobChan) <= JobChanCap
          /\ Len(resultChan) <= ResultChanCap
          /\ FetchedNotTaken <= JobChanCap + NumFetchers
          /\ CoordLead <= BlockNumChanCap)
    /\ [][SendsOnlyWithRoom]_vars

\* the coordinator holds a number it cannot send because the block-number
\* queue is full, while a fetcher holds a fetched block it cannot push
\* because the job queue is full
C18_Witness ==
    /\ ~fatal
    /\ coord.pc = "send" /\ CoordLoopCond(coord.blockNum, cfg.endBlock)
    /\ Len(blockNumChan) = BlockNumChanCap
    /\ CoordLead = BlockNumChanCap
    /\ Len(jobChan) = JobChanCap
    /\ \E f \in Fetchers : fetcher[f].pc = "push" /\ Holding(f)
    /\ FetchedNotTaken = JobChanCap + 1

\* ------------------------------------------------------------------------
\* The block-history exporter (api-caller/block-history/main.go)
\* ------------------------------------------------------------------------
MaxHistoryBlocks == 3
MaxHistoryConcurrent == 2
maxBlockRetries == 3

pipelineVars == <<cfg, err, fatal, coord, blockNumChan, blockNumClosed,
                  fetcher, jobChan, jobClosed, worker, est, bootstrapCount,
                  bootstrapDone, resultChan, resultClosed, writer, output,
                  mainPc, hist, zcall, flz>>

\* strconv.FormatUint(n, 10): the decimal digits of n, most significant first
RECURSIVE FormatUint(_)
FormatUint(n) ==
    IF n < 10 THEN <<n>> ELSE Append(FormatUint(n \div 10), n % 10)

\* the number a sequence of decimal digits reads as
RECURSIVE ParseUint(_)
ParseUint(d) ==
    IF d = <<>> THEN 0
    ELSE 10 * ParseUint(SubSeq(d, 1, Len(d) - 1)) + d[Len(d)]

Header == <<"Block Number", "Gas Used", "Gas Limit", "Gas Utilization %",
            "Timestamp", "Block Hash">>

\* what getBlockInfo returns for block n when the endpoint answers: the
\* number the endpoint reports and the block's hash
BlockData(n) == [Number |-> n, Hash |-> <<"hash", n>>]

\* if latestBlockNumber >= uint64(blockCount-1) { latest - (blockCount-1) }
\* else { 0 }
StartBlockNumber(latest, blockCount) ==
    IF latest >= blockCount - 1 THEN latest - (blockCount - 1) ELSE 0

HistoryRange == history.startBlockNumber..history.latestBlockNumber

\* the rows the write loop appends for a block whose result carries an
\* error, and for a block whose result carries data
ErrorRowsSkipped(blockNum) == <<>>

ErrorRows(blockNum) ==
    <<<<FormatUint(blockNum), "ERROR", "ERROR", "ERROR", "ERROR", "ERROR">>>>

DataRows(data) ==
    <<<<FormatUint(data.Number), "gasUsed", "gasLimit", "gasUtilization",
        "timestamp", data.Hash>>>>

HistoryFetchOutcomes(n) == IF n \in history.flaky THEN BOOLEAN ELSE {TRUE}

\* lines 203-232: the range, the CSV header, resultChan and the semaphore
HistoryStart ==
    /\ history.pc = "start"
    /\ LET first == StartBlockNumber(history.latestBlockNumber,
                                     history.blockCount)
       IN history' = [history EXCEPT
            !.pc = "spawn",
            !.startBlockNumber = first,
            !.blockNum = first,
            !.rows = <<Header>>,
            !.worker = [n \in first..history.latestBlockNumber |->
                          [pc |-> "idle", retry |-> 0, data |-> Nil,
                           err |-> ErrNil, attempts |-> 0]]]
    /\ UNCHANGED <<pipelineVars, tip>>

\* one iteration of the loop that starts the workers (lines 236-252), and
\* after it the start of the goroutine that closes resultChan
HistorySpawn ==
    /\ history.pc = "spawn"
    /\ IF history.blockNum <= history.latestBlockNumber
       THEN /\ history.semaphore < history.maxConcurrent
            /\ history' = [history EXCEPT
                 !.semaphore = @ + 1,
                 !.wg = @ + 1,
                 !.worker[history.blockNum].pc = "fetch",
                 !.blockNum = @ + 1]
       ELSE history' = [history EXCEPT !.pc = "collect"]
    /\ UNCHANGED <<pipelineVars, tip>>

\* fetchBlockWorker: one iteration of the retry loop (lines 103-112)
HistoryFetch(n) ==
    /\ n \in DOMAIN history.worker
    /\ history.worker[n].pc = "fetch"
    /\ \E ok \in HistoryFetchOutcomes(n) :
         history' = [history EXCEPT
            !.worker[n] = [pc |-> IF ok \/ @.retry + 1 >= maxBlockRetries
                                  THEN "send" ELSE "fetch",
                           retry |-> IF ok THEN @.retry ELSE @.retry + 1,
                           data |-> IF ok THEN BlockData(n) ELSE Nil,
                           err |-> ErrOf(ok),
                           attempts |-> @.attempts + 1]]
    /\ UNCHANGED <<pipelineVars, tip>>

\* fetchBlockWorker: resultChan <- BlockResult{...} (lines 114-118)
HistorySend(n) ==
    /\ n \in DOMAIN history.worker
    /\ history.worker[n].pc = "send"
    /\ CanSend(history.resultChan, history.blockCount)
    /\ history' = [history EXCEPT
         !.worker[n].pc = "wgdone",
         !.resultChan = Append(@, [BlockNumber |-> n,
                                   Data |-> history.worker[n].data,
                                   Error |-> history.worker[n].err]),
         !.finished = Append(@, n)]
    /\ UNCHANGED <<pipelineVars, tip>>

\* fetchBlockWorker: the deferred wg.Done() (line 96)
HistoryWgDone(n) ==
    /\ n \in DOMAIN history.worker
    /\ history.worker[n].pc = "wgdone"
    /\ history' = [history EXCEPT !.worker[n].pc = "release", !.wg = @ - 1]
    /\ UNCHANGED <<pipelineVars, tip>>

\* the deferred release of the semaphore (line 240)
HistoryRelease(n) ==
    /\ n \in DOMAIN history.worker
    /\ history.worker[n].pc = "release"
    /\ history' = [history EXCEPT !.worker[n].pc = "done",
                                  !.semaphore = @ - 1]
    /\ UNCHANGED <<pipelineVars, tip>>

\* go func() { wg.Wait(); close(resultChan) }() (lines 255-258)
HistoryClose ==
    /\ history.pc \in {"collect", "write", "done"}
    /\ ~history.closed /\ history.wg = 0
    /\ history' = [history EXCEPT !.closed = TRUE]
    /\ UNCHANGED <<pipelineVars, tip>>

\* for result := range resultChan { results[result.BlockNumber] = result }
HistoryCollect ==
    /\ history.pc = "collect"
    /\ IF history.resultChan # <<>>
       THEN LET result == Head(history.resultChan)
            IN history' = [history EXCEPT
                 !.resultChan = Tail(@),
                 !.results = [n \in (DOMAIN @) \cup {result.BlockNumber} |->
                                IF n = result.BlockNumber THEN result
                                ELSE @[n]]]
       ELSE /\ history.closed
            /\ history' = [history EXCEPT
                 !.pc = "write", !.blockNum = history.startBlockNumber]
    /\ UNCHANGED <<pipelineVars, tip>>

\* one iteration of the loop that writes the rows (lines 271-317)
HistoryWriteRow ==
    /\ history.pc = "write"
    /\ IF history.blockNum <= history.latestBlockNumber
       THEN LET blockNum == history.blockNum
                exists == blockNum \in DOMAIN history.results
                result == history.results[blockNum]
            IN IF ~exists
               THEN history' = [history EXCEPT !.blockNum = @ + 1]
               ELSE IF result.Error # ErrNil
                    THEN history' = [history EXCEPT
                           !.blockNum = @ + 1,
                           !.blocksFailed = @ + 1,
                           !.rows = @ \o ErrorRows(blockNum)]
                    ELSE history' = [history EXCEPT
                           !.blockNum = @ + 1,
                           !.blocksFetched = @ + 1,
                           !.rows = @ \o DataRows(result.Data)]
       ELSE history' = [history EXCEPT !.pc = "done"]
    /\ UNCHANGED <<pipelineVars, tip>>

\* The exporter after its configuration is read and the latest block number
\* is known (lines 121-201): the latest block, BLOCK_COUNT, MAX_CONCURRENT
\* and the blocks whose fetch may fail are the inputs.
HistoryLatest == {1, 11}

HistoryInputs ==
    {[HistoryIdle EXCEPT !.pc = "start", !.latestBlockNumber = latest,
                         !.blockCount = count, !.maxConcurrent = conc,
                         !.flaky = {latest - k : k \in back}] :
       latest \in HistoryLatest, count \in 1..MaxHistoryBlocks,
       conc \in 1..MaxHistoryConcurrent,
       back \in {{}, {0}, {0, 1}}}

InitHistory ==
    /\ cfg = Config(endBlock, endBlock, 0, "single", FALSE, {}, FALSE)
    /\ InitPipeline
    /\ flz = FlzIdle(<<>>)
    /\ history \in HistoryInputs
    /\ tip = TipIdle

NextHistory ==
    \/ HistoryStart
    \/ HistorySpawn
    \/ \E n \in HistoryRange :
          \/ HistoryFetch(n)
          \/ HistorySend(n)
          \/ HistoryWgDone(n)
          \/ HistoryRelease(n)
    \/ HistoryClose
    \/ HistoryCollect
    \/ HistoryWriteRow

SpecHistory == InitHistory /\ [][NextHistory]_vars

\* ------------------------------------------------------------------------
\* C20: after the header the exporter writes exactly one row for each block
\* number of [startBlockNumber, latestBlockNumber], in ascending order of
\* block number, whatever the order in which the workers finished: the i-th
\* row written is the row of block startBlockNumber + i - 1, the write loop
\* has written one row per block it has passed, and when the run is over
\* there is a row for every block of the range; the row of a block whose 3
\* fetch attempts all failed is its ERROR placeholder, the row of any other
\* block carries that block's data; and the run never stalls before it is
\* over.
AllAttemptsFailedFor(n) ==
    /\ history.worker[n].attempts = maxBlockRetries
    /\ history.worker[n].err # ErrNil

RowsWritten == Len(history.rows) - 1

MaxTipHead == 3
MaxTipPolls == 4

\* the calls of one poll that may fail in a run
TipCalls == {"BlockNumber", "getBlockGasInfo", "SuggestGasTipCap", "WriteString"}

TipOutcomes(call) == IF call \in tip.faults THEN BOOLEAN ELSE {TRUE}

\* the chain grows by a block between two calls of the monitor
TipHeadAdvance ==
    /\ tip.pc # "idle" /\ tip.head < MaxTipHead
    /\ tip' = [tip EXCEPT !.head = @ + 1]
    /\ UNCHANGED <<pipelineVars, history>>

\* lines 105-119: client.BlockNumber, the comparison with lastBlockNumber
\* and its update
TipPoll ==
    /\ tip.pc = "poll" /\ tip.polls < MaxTipPolls
    /\ \E ok \in TipOutcomes("BlockNumber") :
         IF ~ok \/ tip.head = tip.lastBlockNumber
         THEN tip' = [tip EXCEPT !.polls = @ + 1]
         ELSE tip' = [tip EXCEPT !.polls = @ + 1,
                                 !.blockNumber = tip.head,
                                 !.lastBlockNumber = tip.head,
                                 !.observed = @ \cup {tip.head},
                                 !.pc = "gas"]
    /\ UNCHANGED <<pipelineVars, history>>

\* lines 122-127: getBlockGasInfo; on an error log, sleep, continue
TipGasInfo ==
    /\ tip.pc = "gas"
    /\ \E ok \in TipOutcomes("getBlockGasInfo") :
         tip' = IF ok THEN [tip EXCEPT !.pc = "fee"]
                ELSE [tip EXCEPT !.pc = "poll",
                                 !.failed = @ \cup {tip.blockNumber}]
    /\ UNCHANGED <<pipelineVars, history>>

\* lines 130-135: client.SuggestGasTipCap; on an error log, sleep, continue
TipFee ==
    /\ tip.pc = "fee"
    /\ \E ok \in TipOutcomes("SuggestGasTipCap") :
         tip' = IF ok THEN [tip EXCEPT !.pc = "write"]
                ELSE [tip EXCEPT !.pc = "poll",
                                 !.failed = @ \cup {tip.blockNumber}]
    /\ UNCHANGED <<pipelineVars, history>>

\* lines 138-156: the line of the block is appended to the file; a failed
\* write is logged
TipWrite ==
    /\ tip.pc = "write"
    /\ \E ok \in TipOutcomes("WriteString") :
         tip' = [tip EXCEPT
                   !.pc = "poll",
                   !.rows = IF ok
                            THEN Append(@, [block_number |-> tip.blockNumber])
                            ELSE @]
    /\ UNCHANGED <<pipelineVars, history>>

\* The monitor when it enters its loop (line 101), the chain at block 1;
\* at most one kind of call fails in a run.
InitTip ==
    /\ cfg = Config(endBlock, endBlock, 0, "single", FALSE, {}, FALSE)
    /\ InitPipeline
    /\ flz = FlzIdle(<<>>)
    /\ history = HistoryIdle
    /\ tip \in {[TipIdle EXCEPT !.pc = "poll", !.head = 1, !.faults = f] :
                  f \in {{}} \cup {{c} : c \in TipCalls}}

NextTip == TipHeadAdvance \/ TipPoll \/ TipGasInfo \/ TipFee \/ TipWrite

SpecTip == InitTip /\ [][NextTip]_vars

\* ------------------------------------------------------------------------
\* C21: the monitor writes one data point per block: no two rows carry the
\* same block number, and between two polls every block number the monitor
\* has observed as new has its row, also when the gas-info or the tip query
\* made for it failed.
TipRowOf(n) == {i \in 1..Len(tip.rows) : tip.rows[i].block_number = n}

C21_OneRowPerObservedBlock ==
    /\ \A n \in 1..MaxTipHead : Cardinality(TipRowOf(n)) <= 1
    /\ tip.pc = "poll" =>
          \A n \in tip.observed : TipRowOf(n) # {}

\* ------------------------------------------------------------------------
\* A step that is a call of zlibBatchEstimator.write
ZlibCalled == zcall'.n # zcall.n

\* C22: in every call of write, also after rotations, the payload is
\* compressed by session B (w[1]) into the buffer that is measured (b[1]),
\* and the value returned is max(0, k - 2) for the k bytes session B
\* appended for the payload.
C22_DeltaIsSessionBOutput ==
    [][ZlibCalled =>
         /\ est.w[1].dst = 1
         /\ zcall'.ret = Uint32(Max(0, zcall'.emitted - SyncBytes))]_vars

\* C23: a call after which B's output length exceeds 128KB rotates: the
\* previous session A becomes session B with its compressor history and its
\* accumulated output, and the new session A is a reset compressor whose
\* output buffer is empty; a call that leaves B's output length at 128KB or
\* less keeps both sessions in their roles.
C23_RotationSwapsRoles ==
    [][ZlibCalled =>
         IF zcall'.peak > RotateLimit
         THEN /\ est'.w[1].id = est.w[0].id
              /\ est'.w[1].wroteHeader /\ est'.w[1].writes > 0
              /\ est'.b[est'.w[1].dst] > 0
              /\ ~est'.w[0].wroteHeader /\ est'.w[0].writes = 0
              /\ est'.b[est'.w[0].dst] = 0
         ELSE \A i \in Slots : est'.w[i].id = est.w[i].id]_vars

\* C24: a write is mirrored into session A exactly when B's output length
\* after B's own write exceeds 64KB; a call that does not mirror leaves A's
\* buffer and compressor as they were, and a mirrored write adds nothing to
\* B's buffer.
C24_MirrorOnlyIntoA ==
    [][ZlibCalled =>
         /\ zcall'.mirrored <=> zcall'.after > MirrorLimit
         /\ ~zcall'.mirrored => (est'.w[0] = est.w[0] /\ est'.b[0] = est.b[0])
         /\ zcall'.mirrored => zcall'.peak = zcall'.after]_vars

\* C27: whatever writes and rotations came before, session w[0] appends its
\* output to b[0] and session w[1] to b[1].
C27_SessionsKeepTheirBuffers == \A i \in Slots : est.w[i].dst = i

\* ------------------------------------------------------------------------
RECURSIVE Pow2(_)
Pow2(k) == IF k = 0 THEN 1 ELSE 2 * Pow2(k - 1)

\* the step in which fetcher f leaves the test that follows its attempt
FetcherDecides(f) == fetcher[f].pc = "chk" /\ fetcher'[f].pc # "chk"

\* the sleep of lines 233-236 is taken together with the doubling
FetcherWaited(f) == fetcher'[f].retryDelay = 2 * fetcher[f].retryDelay

RetrySteps ==
    \A f \in Fetchers : FetcherDecides(f) =>
        LET failed == fetcher[f].block = Nil
            k == fetcher[f].attempt
        IN /\ fetcher'[f].pc = "call" => failed
           /\ (failed /\ k < maxRetries - 1) =>
                 /\ fetcher[f].retryDelay = BaseRetryDelay * Pow2(k)
                 /\ FetcherWaited(f)
           /\ (~failed \/ k = maxRetries - 1) =>
                 fetcher'[f].retryDelay = fetcher[f].retryDelay

\* C25: per block number a fetcher makes at most 8 attempts and none after
\* a successful one, sleeps 100ms * 2^k after its failed attempt k = 0..6,
\* does not sleep after the last attempt, and starts each new block number
\* with a delay of 100ms.
C25_RetrySchedule ==
    /\ [](\A f \in Fetchers :
            /\ fetcher[f].calls <= maxRetries
            /\ (fetcher[f].pc = "call" /\ fetcher[f].calls = 0) =>
                  fetcher[f].retryDelay = BaseRetryDelay)
    /\ [][RetrySteps]_vars

\* ------------------------------------------------------------------------
\* the results the estimator emitted so far, in their order: those the
\* writer took, followed by those still queued
WrittenResults == [i \in 1..Len(hist.written) |-> hist.written[i].result]

EmittedResults == WrittenResults \o resultChan

\* the output file replayed from the records the writer took, in the order
\* it took them (a field whose write failed is missing from its record)
RECURSIVE Replay(_)
Replay(n) ==
    IF n = 0 THEN <<>>
    ELSE WriteRecord(Replay(n - 1), hist.written[n].result, hist.written[n].failed)

EmissionStep ==
    IF hist'.emitted # hist.emitted
    THEN /\ hist'.emitted = hist.emitted + 1
         /\ resultChan' # <<>>
         /\ EmittedResults' = Append(EmittedResults, resultChan'[Len(resultChan')])
    ELSE EmittedResults' = EmittedResults

\* C26: the records are in the output in the order in which the estimator
\* emitted the results: the sequence "written, then queued" only ever grows
\* at its end, by the result just emitted, so the writer takes the results
\* first-in first-out, none is lost, none is written twice and none is
\* written before it was emitted; the output is the records of the results
\* taken, in that order.
C26_WrittenInEmissionOrder ==
    /\ [](/\ Len(EmittedResults) = hist.emitted
          /\ output = Replay(Len(hist.written)))
    /\ [][EmissionStep]_vars

C26_Witness ==
    /\ Len(hist.written) >= 1
    /\ Len(resultChan) >= 2
    /\ resultChan[1] # resultChan[2]

\* ------------------------------------------------------------------------
\* transaction t of block n is one the worker estimates, and record i holds
\* its byte counts
RecordIsOfTx(i, n, t) ==
    LET tx == cfg.chain[n][t]
        b == TrimSig(tx.bytes)
    IN /\ tx.kind # "deposit" /\ tx.ok
       /\ FieldAt(i, 4) = CountZeroes(b)
       /\ FieldAt(i, 5) = CountNonZeroes(b)

InTxOrder(n) ==
    LET rs == RecordsOfBlock(n)
        m == Cardinality(rs)
        first == CHOOSE i \in rs : \A k \in rs : i <= k
    IN m > 0 =>
         \E f \in [1..m -> 1..Len(cfg.chain[n])] :
            /\ \A q \in 1..(m - 1) : f[q] < f[q + 1]
            /\ \A q \in 1..m : RecordIsOfTx(first + q - 1, n, f[q])

\* C29: the records of one block are contiguous in the output and in the
\* order of the block's transactions: between two records with the same
\* block number there is no record with another number, and the records of
\* a block are those of transactions of that block at increasing positions.
C29_BlockRecordsContiguous ==
    /\ \A i \in 1..NumRecords : \A k \in i..NumRecords :
          FieldAt(i, 1) = FieldAt(k, 1) =>
             \A j \in i..k : FieldAt(j, 1) = FieldAt(i, 1)
    /\ \A n \in BlockRange : InTxOrder(n)

C29_Witness ==
    /\ mainPc = "done"
    /\ \E n \in BlockRange : \E o \in BlockRange :
          /\ n # o
          /\ Cardinality(RecordsOfBlock(n)) = 2
          /\ Cardinality(RecordsOfBlock(o)) = 2
          /\ \E i \in RecordsOfBlock(n) : \E k \in RecordsOfBlock(o) : i < k
          /\ FieldAt(1, 1) < FieldAt(NumRecords, 1)

\* ------------------------------------------------------------------------
\* the cost of encoding len bytes as literals only: len + ceil(len / 32)
AllLiteralCost(len) == len + (len + 31) \div 32

\* C30: for an input of length L, FlzCompressLen returns at most the
\* all-literal cost L + ceil(L/32), whatever matches it takes, and returns
\* 0 only for the empty input.
C30_AtMostAllLiteralCost ==
    flz.pc = "returned" =>
        /\ flz.out.n <= AllLiteralCost(Len(flz.ib))
        /\ flz.out.n = 0 <=> flz.ib = <<>>

C30_Witness ==
    /\ flz.pc = "returned"
    /\ flz.out.matches >= 2
    /\ \E i \in 1..Len(flz.out.ops) :
          flz.out.ops[i].op = "match" /\ flz.out.ops[i].arg = 1
    /\ flz.out.n > 0
    /\ flz.out.n <= AllLiteralCost(Len(flz.ib))

\* ------------------------------------------------------------------------
\* Termination of main(): runs in which creating a client or resolving
\* the starting block may fail, under the scheduling Go gives goroutines:
\* a goroutine that can take its next step eventually takes it, and every
\* call made eventually returns.
DialFaultRuns ==
    {Config(endBlock + k, endBlock, 0, "single", TRUE, {}, FALSE) :
       k \in 1..MaxBlocks}

InitTermination ==
    /\ cfg \in DialFaultRuns
    /\ InitRun

CoordinatorStep ==
    CoordDial \/ CoordDialCheck \/ CoordResolve \/ CoordResolveCheck \/ CoordSend

FetcherStep(f) ==
    \/ FetcherDial(f) \/ FetcherDialCheck(f) \/ FetcherTake(f)
    \/ FetcherCall(f) \/ FetcherCheck(f) \/ FetcherAfterLoop(f)
    \/ FetcherPush(f)

WorkerStep == WorkerRecv \/ WorkerTx

WriterStep == WriterWrite \/ WriterDone

Scheduling ==
    /\ WF_vars(CoordinatorStep)
    /\ \A f \in Fetchers : WF_vars(FetcherStep(f))
    /\ WF_vars(CloseJobs)
    /\ WF_vars(WorkerStep)
    /\ WF_vars(WriterStep)
    /\ WF_vars(MainCloseResults)

SpecTermination == InitTermination /\ [][Next]_vars /\ Scheduling

StartingBlockResolved == coord.pc \in {"send", "done"}

ClosingOrder ==
    /\ blockNumClosed => Len(hist.enq) = cfg.start - cfg.endBlock
    /\ jobClosed => \A f \in Fetchers : fetcher[f].pc = "done"
    /\ resultClosed => worker.pc = "done"
    /\ mainPc = "done" =>
          /\ resultChan = <<>>
          /\ Len(hist.written) = hist.emitted

\* C28: once the starting block is resolved the run reaches "All processing
\* complete", in every interleaving and also when fetchers fail to create
\* their client; the block-number queue is closed after the last number,
\* the job queue only after every fetcher has exited, the result queue only
\* after the estimator has exited, and the run completes only after the
\* writer has written every emitted result.
C28_RunTerminates ==
    /\ []ClosingOrder
    /\ StartingBlockResolved ~> (mainPc = "done")
====
